---- MODULE Spec2Model ----
(***************************************************************************)
(* A model of the consensus-translate pipeline:                            *)
(*   get_source.rs  - get_appropriate_sources, the per-language policy     *)
(*   openrouter.rs  - OpenRouterClient::complete and calculate_cost        *)
(*   deepl.rs       - DeepLClient::translate                               *)
(*   lib.rs         - consensus_translate: fan-out, join, filtering,       *)
(*                    evaluation call, fenced-block parsing, assembly      *)
(*                                                                         *)
(* Text is a sequence of characters, a string each.  Money is an integer   *)
(* number of 1e-8 dollars (every price of the price table is a multiple   *)
(* of 0.01 dollars per million tokens), so "dollars * 100000" is           *)
(* "units / 1000".  A sentence is a sequence of characters told apart by   *)
(* their UTF-8 width.  A request is a call of a backend client's one       *)
(* operation (complete, translate); requests lists them in order.          *)
(***************************************************************************)
EXTENDS Integers, Sequences, FiniteSets, TLC

VARIABLES
    pc,                  \* position of consensus_translate (or of a function harness)
    sentence,            \* argument sentence, a sequence of characters
    target_lang,         \* argument target_lang
    formality,           \* argument formality
    source_lang,         \* argument source_lang: "None" or a language
    sources_lang,        \* lang_for_sources, the language handed to the policy
    is_deepl_disabled,   \* the dedicated-service toggle handed to the policy
    translate_sources,   \* translation_methods.translate_sources
    eval_source,         \* translation_methods.eval_source
    translation_results, \* one entry per future of the fan-out, in source order
    requests,            \* the calls made to the backend clients, in the order made
    arrival,             \* the order in which the branches resolved
    total_cost,          \* total_cost, in 1e-8 dollars
    translations,        \* the candidates that survived filtering
    eval_system_prompt,  \* what fills the places of the evaluation prompt
    eval_user_prompt,    \* the user prompt of the evaluation call
    eval_st,             \* the evaluation call: "idle", "inflight", "returned"
    eval_reply,          \* what complete() returned for the evaluation call
    eval_response,       \* the evaluator's text handed to the parser
    synthesized,         \* the parser's result
    result               \* what consensus_translate returned

vars == <<pc, sentence, target_lang, formality, source_lang, sources_lang,
          is_deepl_disabled, translate_sources, eval_source, translation_results,
          requests, arrival, total_cost, translations, eval_system_prompt,
          eval_user_prompt, eval_st, eval_reply, eval_response, synthesized, result>>

----------------------------------------------------------------------------
(* Bounds *)

\* evaluator responses are built from at most this many pieces
MaxPieces == 5
\* the prompt tokens of a usage block that is present (with 1 completion token)
MaxTokens == 3
\* sentences have at most this many characters
MaxChars == 500

----------------------------------------------------------------------------
(* Text helpers: Rust's str::find, str::contains, str::trim, slicing *)

NoneIdx == 0 - 1

\* the characters the parser tells apart: a backtick, a line feed, a space
BT == "backtick"
NL == "\n"
SP == " "
Fence == <<BT, BT, BT>>
Refusal == <<"4", "8", "3">>

\* &s[from..] with a 0-based byte offset
SliceFrom(s, from) == SubSeq(s, from + 1, Len(s))

\* &s[..to] with a 0-based byte offset
SliceTo(s, to) == SubSeq(s, 1, to)

MatchesAt(s, pat, i) ==
    /\ i + Len(pat) <= Len(s)
    /\ SubSeq(s, i + 1, i + Len(pat)) = pat

\* str::find: the 0-based offset of the first occurrence, or NoneIdx
Find(s, pat) ==
    LET hits == {i \in 0..Len(s) : MatchesAt(s, pat, i)}
    IN  IF hits = {} THEN NoneIdx
        ELSE CHOOSE i \in hits : \A j \in hits : i <= j

Contains(s, pat) == Find(s, pat) # NoneIdx

IsWhitespace(c) == c \in {SP, NL}

\* str::trim
Trim(s) ==
    LET keep == {i \in 1..Len(s) : ~IsWhitespace(s[i])}
    IN  IF keep = {} THEN <<>>
        ELSE LET lo == CHOOSE i \in keep : \A j \in keep : i <= j
                 hi == CHOOSE i \in keep : \A j \in keep : j <= i
             IN  SubSeq(s, lo, hi)

----------------------------------------------------------------------------
(* languages.rs *)

Language ==
    {"Arabic", "ArabicStandard", "Bulgarian", "Chinese", "ChineseTraditional",
     "Croatian", "Czech", "Danish", "Dutch", "Esperanto", "Estonian", "Finnish",
     "French", "German", "Greek", "Hebrew", "Hindi", "Hungarian", "Indonesian",
     "Italian", "Japanese", "Korean", "LatinClassical", "Latvian", "Lithuanian",
     "Norwegian", "Persian", "Polish", "PortugueseBrazil", "PortuguesePortugal",
     "Romanian", "Russian", "Slovakian", "Slovenian", "Spanish", "Swedish",
     "Turkish", "Ukrainian", "Vietnamese", "English", "Unknown"}

\* Language::to_llm_format: the label of a language inside a prompt
to_llm_format(lang) ==
    CASE lang = "ArabicStandard" -> "Arabic (Standard)"
      [] lang = "Chinese" -> "Chinese (Simplified)"
      [] lang = "ChineseTraditional" -> "Chinese (Traditional)"
      [] lang = "LatinClassical" -> "Latin (Classical)"
      [] lang = "PortugueseBrazil" -> "Portuguese (Brazil)"
      [] lang = "PortuguesePortugal" -> "Portuguese (Portugal)"
      [] lang = "Slovakian" -> "Slovak"
      [] lang = "Unknown" -> "an unspecified language"
      [] OTHER -> lang

----------------------------------------------------------------------------
(* get_source.rs *)

gpt4o == "openai/gpt-4o-2024-11-20"
gpt41 == "openai/openai/gpt-4.1"
geminiflash2 == "google/gemini-2.0-flash-001"
llama3370b == "meta-llama/llama-3.3-70b-instruct"
sonnet35 == "anthropic/claude-3.5-sonnet"
gemma3_27b == "google/gemma-3-27b-it"

Openrouter(model_name) == [kind |-> "Openrouter", model |-> model_name]
Deepl == [kind |-> "Deepl", model |-> "deepl"]

SourceResponse(sources, eval) == [eval_source |-> eval, translate_sources |-> sources]

\* a catch-all arm that makes the dedicated service the evaluator
default_sources_deepl_eval(deepl_disabled, supports_deepl_n) ==
    IF supports_deepl_n /\ ~deepl_disabled
    THEN SourceResponse(<<Openrouter(gpt41), Deepl, Openrouter(gpt4o)>>, Deepl)
    ELSE SourceResponse(<<Openrouter(gpt41), Openrouter(gemma3_27b), Openrouter(gpt4o)>>,
                        Openrouter(gpt41))

\* a catch-all arm that lists the dedicated service whatever the toggle says
default_sources_ignores_toggle(deepl_disabled, supports_deepl_n) ==
    IF supports_deepl_n
    THEN SourceResponse(<<Openrouter(gpt41), Deepl, Openrouter(gpt4o)>>,
                        Openrouter(gpt41))
    ELSE SourceResponse(<<Openrouter(gpt41), Openrouter(gemma3_27b), Openrouter(gpt4o)>>,
                        Openrouter(gpt41))

\* the catch-all arm of the policy
default_sources(deepl_disabled, supports_deepl_n) ==
    IF supports_deepl_n /\ ~deepl_disabled
    THEN SourceResponse(<<Openrouter(gpt41), Deepl, Openrouter(gpt4o)>>,
                        Openrouter(gpt41))
    ELSE SourceResponse(<<Openrouter(gpt41), Openrouter(gemma3_27b), Openrouter(gpt4o)>>,
                        Openrouter(gpt41))

\* supports_deepl_n is the value of target_lang.supports_deepl_n(), a method
\* that is not part of the source files.
get_appropriate_sources(lang, deepl_disabled, supports_deepl_n) ==
    CASE lang \in {"Chinese", "ChineseTraditional"} ->
            SourceResponse(<<Openrouter(gpt4o), Openrouter(gpt41), Openrouter(geminiflash2)>>,
                           Openrouter(gpt4o))
      [] lang = "Esperanto" ->
            SourceResponse(<<Openrouter(gpt41), Openrouter(sonnet35), Openrouter(gpt4o)>>,
                           Openrouter(gpt41))
      [] lang = "French" ->
            IF deepl_disabled
            THEN SourceResponse(<<Openrouter(llama3370b), Openrouter(gpt41), Openrouter(gpt4o)>>,
                                Openrouter(gpt41))
            ELSE SourceResponse(<<Deepl, Openrouter(gpt41), Openrouter(gpt4o)>>,
                                Openrouter(gpt41))
      [] lang = "German" ->
            SourceResponse(<<Openrouter(gpt41), Openrouter(gpt4o), Openrouter(gemma3_27b)>>,
                           Openrouter(gpt41))
      [] lang = "Hungarian" ->
            SourceResponse(<<Openrouter(gpt41), Openrouter(gpt4o), Openrouter(sonnet35)>>,
                           Openrouter(gpt41))
      [] lang = "Italian" ->
            SourceResponse(<<Openrouter(gpt41), Openrouter(gpt4o), Openrouter(gemma3_27b)>>,
                           Openrouter(gpt41))
      [] lang = "Japanese" ->
            IF deepl_disabled
            THEN SourceResponse(<<Openrouter(gpt41), Openrouter(gpt4o), Openrouter(sonnet35)>>,
                                Openrouter(gpt41))
            ELSE SourceResponse(<<Openrouter(gpt41), Openrouter(gpt4o), Deepl>>,
                                Openrouter(gpt41))
      [] lang = "Korean" ->
            SourceResponse(<<Openrouter(gpt41), Openrouter(sonnet35), Openrouter(gemma3_27b)>>,
                           Openrouter(gpt41))
      [] lang = "Spanish" ->
            IF deepl_disabled
            THEN SourceResponse(<<Openrouter(gpt41), Openrouter(sonnet35), Openrouter(gpt4o)>>,
                                Openrouter(gpt41))
            ELSE SourceResponse(<<Openrouter(gpt41), Openrouter(sonnet35), Deepl>>,
                                Openrouter(gpt41))
      [] lang = "Swedish" ->
            IF deepl_disabled
            THEN SourceResponse(<<Openrouter(llama3370b), Openrouter(gpt4o), Openrouter(gpt41)>>,
                                Openrouter(gpt41))
            ELSE SourceResponse(<<Deepl, Openrouter(gpt4o), Openrouter(gpt41)>>,
                                Openrouter(gpt41))
      [] lang = "Ukrainian" ->
            SourceResponse(<<Openrouter(gpt41), Openrouter(geminiflash2), Openrouter(gpt4o)>>,
                           Openrouter(gpt41))
      [] lang = "Vietnamese" ->
            SourceResponse(<<Openrouter(gpt41), Openrouter(gemma3_27b), Openrouter(gpt4o)>>,
                           Openrouter(gpt41))
      [] OTHER -> default_sources(deepl_disabled, supports_deepl_n)

----------------------------------------------------------------------------
(* openrouter.rs *)

\* (input, output) price of a token in 1e-8 dollars: the price per million
\* tokens in dollars, times 100
price_per_token(model) ==
    CASE model = "openai/gpt-4o-2024-11-20" -> <<250, 1000>>
      [] model = "openai/gpt-4.1" -> <<200, 800>>
      [] model = "google/gemini-2.5-flash" -> <<30, 250>>
      [] model = "meta-llama/llama-3.3-70b-instruct" -> <<10, 25>>
      [] model = "meta-llama/llama-4-maverick" -> <<15, 60>>
      [] model = "deepseek/deepseek-chat-v3-0324" -> <<30, 88>>
      [] model = "anthropic/claude-sonnet-4" -> <<300, 1500>>
      [] model = "anthropic/claude-opus-4" -> <<1500, 7500>>
      [] model = "google/gemma-3-27b-it" -> <<10, 20>>
      [] model = "x-ai/grok-3-beta" -> <<300, 1500>>
      [] OTHER -> <<0, 0>>

calculate_cost(model, prompt_tokens, completion_tokens) ==
    LET input_cost == prompt_tokens * price_per_token(model)[1]
        output_cost == completion_tokens * price_per_token(model)[2]
    IN  input_cost + output_cost

\* What the HTTP exchange of one complete() call can come to: the request
\* fails in transit, the status is not a success, the body does not decode,
\* it holds no choice, or it holds a content and perhaps a usage block.
NoUsage == [completion_tokens |-> 0, present |-> FALSE, prompt_tokens |-> 0]
Usage(p, c) == [completion_tokens |-> c, present |-> TRUE, prompt_tokens |-> p]

HttpFailure(why) == [content |-> <<>>, outcome |-> why, usage |-> NoUsage]
HttpSuccess(content, usage) == [content |-> content, outcome |-> "success", usage |-> usage]

HttpFailures ==
    {HttpFailure(why) : why \in {"transport", "status", "decode", "no_choices"}}

Usages == {NoUsage, Usage(MaxTokens, 1)}

CompleteErr(why) == [content |-> <<>>, cost |-> 0, err |-> why, ok |-> FALSE]
CompleteOk(content, cost) == [content |-> content, cost |-> cost, err |-> "", ok |-> TRUE]

\* the value of a reply that has not come
NoReply == CompleteErr("no reply")

\* OpenRouterClient::complete, given what the HTTP exchange came to
complete(model, http) ==
    IF http.outcome # "success"
    THEN CompleteErr(http.outcome)
    ELSE LET prompt_tokens == IF http.usage.present THEN http.usage.prompt_tokens ELSE 0
             completion_tokens == IF http.usage.present THEN http.usage.completion_tokens ELSE 0
         IN  CompleteOk(http.content, calculate_cost(model, prompt_tokens, completion_tokens))

----------------------------------------------------------------------------
(* deepl.rs *)

\* DeepLClient::translate, given what the HTTP exchange came to: the text of
\* the first translation, or an error.  It reports no cost.
deepl_translate(http) ==
    IF http.outcome # "success"
    THEN CompleteErr(http.outcome)
    ELSE CompleteOk(http.content, 0)

----------------------------------------------------------------------------
(* lib.rs: the fenced-block parser of consensus_translate *)

ParseErr(why) == [err |-> why, ok |-> FALSE, text |-> <<>>]
ParseOk(content) == [err |-> "", ok |-> TRUE, text |-> content]
NotParsed == [err |-> "not parsed", ok |-> FALSE, text |-> <<>>]

\* a parser that hands back the content as it stands between the fences
extract_synthesized_untrimmed(response) ==
    LET start_idx == Find(response, Fence)
    IN  IF start_idx = NoneIdx
        THEN ParseErr("no fence")
        ELSE LET after_first_ticks == SliceFrom(response, start_idx + 3)
                 nl == Find(after_first_ticks, <<NL>>)
                 content_start == IF nl = NoneIdx THEN 0 ELSE nl + 1
                 after_newline == SliceFrom(after_first_ticks, content_start)
                 end_idx == Find(after_newline, Fence)
             IN  IF end_idx = NoneIdx
                 THEN ParseErr("no closing fence")
                 ELSE LET content == SliceTo(after_newline, end_idx)
                      IN  IF content = <<>>
                          THEN ParseErr("empty content")
                          ELSE ParseOk(content)

extract_synthesized(response) ==
    LET start_idx == Find(response, Fence)
    IN  IF start_idx = NoneIdx
        THEN ParseErr("no fence")
        ELSE LET after_first_ticks == SliceFrom(response, start_idx + 3)
                 nl == Find(after_first_ticks, <<NL>>)
                 content_start == IF nl = NoneIdx THEN 0 ELSE nl + 1
                 after_newline == SliceFrom(after_first_ticks, content_start)
                 end_idx == Find(after_newline, Fence)
             IN  IF end_idx = NoneIdx
                 THEN ParseErr("no closing fence")
                 ELSE LET content == Trim(SliceTo(after_newline, end_idx))
                      IN  IF content = <<>>
                          THEN ParseErr("empty content")
                          ELSE ParseOk(content)

----------------------------------------------------------------------------
(* lib.rs: consensus_translate *)

PendingResult == [cost |-> 0, source_name |-> "", st |-> "pending", translation |-> <<>>]
ErrResult == [cost |-> 0, source_name |-> "", st |-> "Err", translation |-> <<>>]
OkResult(source_name, translation, cost) ==
    [cost |-> cost, source_name |-> source_name, st |-> "Ok", translation |-> translation]

TranslationResponseItem(model, combined, text) ==
    [combined |-> combined, model |-> model, text |-> text]

NoResponse == [err |-> "", kind |-> "None", total_cost_thousandths_cent |-> 0, translations |-> <<>>]
ErrResponse(why) == [err |-> why, kind |-> "Err", total_cost_thousandths_cent |-> 0, translations |-> <<>>]
OkResponse(items, cost) == [err |-> "", kind |-> "Ok", total_cost_thousandths_cent |-> cost, translations |-> items]

\* a choice that hands the target language to the policy whatever it is
lang_for_sources_target(target, source) == target

lang_for_sources(target, source) ==
    IF target = "English"
    THEN (IF source = "None" THEN "Unknown" ELSE source)
    ELSE target

\* source_lang_str: the label of the source language, as a text of one piece
source_lang_str(source) ==
    IF source = "None" THEN <<"an unspecified language">> ELSE <<to_llm_format(source)>>

Formality == {"LessFormal", "NormalFormality", "MoreFormal"}

formality_explicit(f) ==
    CASE f = "LessFormal" -> <<"Less formal">>
      [] f = "NormalFormality" -> <<"Normal, standard formality">>
      [] f = "MoreFormal" -> <<"More formal">>

\* the characters of a sentence the model tells apart by their UTF-8 width:
\* an ASCII letter, a two-byte letter, a three-byte one, a four-byte one
Chars == {"a", "e_acute", "kanji", "emoji"}

utf8_len(c) ==
    CASE c \in {"a", "b", "4", "8", "3"} -> 1
      [] c = "e_acute" -> 2
      [] c = "kanji" -> 3
      [] c = "emoji" -> 4

\* a length that counts characters
str_len_chars(s) == Len(s)

\* String::len: the length of the text in bytes
str_len(s) ==
    LET n(w) == Cardinality({i \in 1..Len(s) : utf8_len(s[i]) = w})
    IN  n(1) + 2 * n(2) + 3 * n(3) + 4 * n(4)

thinking_words(text) ==
    LET w0 == str_len(text) \div 4
        w1 == IF w0 < 50 THEN 50 ELSE w0
    IN  IF w1 > 120 THEN 120 ELSE w1

\* Display of an unsigned integer: its decimal digits
RECURSIVE to_string(_)
to_string(n) ==
    LET digit == <<"0", "1", "2", "3", "4", "5", "6", "7", "8", "9">>[(n % 10) + 1]
    IN  IF n < 10 THEN <<digit>> ELSE Append(to_string(n \div 10), digit)

\* the four places of the evaluation prompt's text, named after what the text
\* around each says it is: "translations from {} to {} with formality [{}]
\* ... (up to {} words".  format! fills them with its arguments in order.
format_eval_system_prompt(arg1, arg2, arg3, arg4) ==
    [formality |-> arg3, from |-> arg1, to |-> arg2, words |-> arg4]

NoPrompt == [formality |-> <<>>, from |-> <<>>, to |-> <<>>, words |-> <<>>]

\* the evaluation prompt of a call
make_eval_system_prompt(text, source, target, f) ==
    format_eval_system_prompt(to_string(thinking_words(text)),
                              source_lang_str(source),
                              <<to_llm_format(target)>>,
                              formality_explicit(f))

QT == "\""

\* the lines of the candidates: "\"{}\"\n" of each, in their order
RECURSIVE candidate_lines(_, _)
candidate_lines(candidates, k) ==
    IF k > Len(candidates)
    THEN <<>>
    ELSE <<QT>> \o candidates[k].translation \o <<QT, NL>>
         \o candidate_lines(candidates, k + 1)

\* "\n(Original text: {})"
original_text_line(text) ==
    <<NL, "(", "O", "r", "i", "g", "i", "n", "a", "l", SP, "t", "e", "x", "t", ":", SP>>
    \o text \o <<")">>

\* a user prompt that leaves the original sentence out
make_eval_user_prompt_no_original(candidates, text) ==
    <<"T", "r", "a", "n", "s", "l", "a", "t", "i", "o", "n", "s", ":", NL>>
    \o candidate_lines(candidates, 1)

\* eval_user_prompt: "Translations:\n", the candidates' lines, the original
make_eval_user_prompt(candidates, text) ==
    <<"T", "r", "a", "n", "s", "l", "a", "t", "i", "o", "n", "s", ":", NL>>
    \o candidate_lines(candidates, 1)
    \o original_text_line(text)

\* a call of a backend client: by the future of branch i of the fan-out, or
\* (branch 0) the evaluation call; `resolved` is the number of branches that
\* had resolved by then
Request(purpose, branch, source, resolved) ==
    [branch |-> branch, purpose |-> purpose, resolved |-> resolved, source |-> source]

\* branch i has called its client
Requested(reqs, i) ==
    \E k \in 1..Len(reqs) : reqs[k].purpose = "translate" /\ reqs[k].branch = i

\* a future that calls its client again after a failure
calls_client_retrying(reqs, results, i) ==
    \/ results[i].st = "pending" /\ ~Requested(reqs, i)
    \/ results[i].st = "Err" /\ Len(reqs) < Len(results) + 1

\* a future that calls its client only once the futures before it have resolved
calls_client_in_turn(reqs, results, i) ==
    /\ results[i].st = "pending" /\ ~Requested(reqs, i)
    /\ \A j \in 1..(i - 1) : results[j].st # "pending"

\* a future calls its client once, when it is first polled
calls_client(reqs, results, i) ==
    results[i].st = "pending" /\ ~Requested(reqs, i)

\* an evaluation that asks the evaluator about each candidate in turn
evaluation_requests_per_candidate(candidates, eval, resolved) ==
    [k \in 1..Len(candidates) |-> Request("eval", 0, eval, resolved)]

\* the evaluation is one call of the evaluator
evaluation_requests(candidates, eval, resolved) ==
    <<Request("eval", 0, eval, resolved)>>

\* the future of an OpenRouter source, given its HTTP exchange
openrouter_future(model_name, http) ==
    LET r == complete(model_name, http)
    IN  IF r.ok THEN OkResult(model_name, r.content, r.cost) ELSE ErrResult

\* the future of the dedicated service, given its HTTP exchange; the match on
\* the source has no such arm in lib.rs
deepl_future(http) ==
    LET r == deepl_translate(http)
    IN  IF r.ok THEN OkResult(Deepl.model, r.content, r.cost) ELSE ErrResult

\* a join that resolves with the first future to resolve
join_all_ready_any(results) == \E i \in 1..Len(results) : results[i].st # "pending"

\* a join that resolves as soon as a future fails, as try_join_all does
join_all_ready_or_failed(results) ==
    \/ \A i \in 1..Len(results) : results[i].st # "pending"
    \/ \E i \in 1..Len(results) : results[i].st = "Err"

\* join_all resolves once every future has
join_all_ready(results) == \A i \in 1..Len(results) : results[i].st # "pending"

\* a join that hands the outputs back in the order of completion
join_all_completion_order(results, order) == [k \in 1..Len(order) |-> results[order[k]]]

\* join_all hands the outputs back in the order of the futures
join_all(results, order) == results

\* a filter that drops only the bare sentinel
is_refusal_exact(translation) == translation = Refusal

is_refusal(translation) == Contains(translation, Refusal)

\* a loop body that keeps every text it is handed
collect_one_keeps_refused(acc, r) ==
    IF r.st = "Ok"
    THEN [total_cost |-> acc.total_cost + r.cost,
          translations |->
              Append(acc.translations,
                     [source_name |-> r.source_name, translation |-> r.translation])]
    ELSE acc

\* a loop body that counts the cost of the kept texts only
collect_one_bills_kept_only(acc, r) ==
    IF r.st = "Ok" /\ ~is_refusal(r.translation)
    THEN [total_cost |-> acc.total_cost + r.cost,
          translations |->
              Append(acc.translations,
                     [source_name |-> r.source_name, translation |-> r.translation])]
    ELSE acc

\* the body of the loop over translation_results
collect_one(acc, r) ==
    IF r.st = "Ok"
    THEN [total_cost |-> acc.total_cost + r.cost,
          translations |->
              IF is_refusal(r.translation)
              THEN acc.translations
              ELSE Append(acc.translations,
                          [source_name |-> r.source_name, translation |-> r.translation])]
    ELSE acc

RECURSIVE collect_from(_, _, _)
collect_from(results, i, acc) ==
    IF i > Len(results)
    THEN acc
    ELSE collect_from(results, i + 1, collect_one(acc, results[i]))

collect(results) == collect_from(results, 1, [total_cost |-> 0, translations |-> <<>>])

\* a check that never finds the list empty
no_valid_translations_never(candidates) == FALSE

no_valid_translations(candidates) == candidates = <<>>

\* a conversion to hundredths of a cent
to_hundredths_cent(total) == (total + 5000) \div 10000

\* (total_cost * 100_000.0).round() as u32, total_cost in 1e-8 dollars.
\* f64::round rounds halves away from zero.  The code's sum is an f64: on a
\* total that is exactly half a unit its rounding error decides the side (14
\* prompt tokens of gpt-4o alone give 3, not 4).  On every total the runs
\* below reach, the f64 computation and this one agree.
to_thousandths_cent(total) == (total + 500) \div 1000

synthesized_model(eval_model_name) == <<"Synthesized (", eval_model_name, ")">>

\* an assembly that puts the synthesized entry first
assemble_synthesized_first(candidates, eval_model_name, text, total) ==
    OkResponse(
        <<TranslationResponseItem(synthesized_model(eval_model_name), TRUE, text)>>
        \o [k \in 1..Len(candidates) |->
               TranslationResponseItem(<<candidates[k].source_name>>, FALSE,
                                       candidates[k].translation)],
        to_thousandths_cent(total))

assemble(candidates, eval_model_name, text, total) ==
    OkResponse(
        [k \in 1..Len(candidates) |->
            TranslationResponseItem(<<candidates[k].source_name>>, FALSE,
                                    candidates[k].translation)]
        \o <<TranslationResponseItem(synthesized_model(eval_model_name), TRUE, text)>>,
        to_thousandths_cent(total))

\* a tail that falls back on the first candidate when the evaluation call fails
finish_falls_back(candidates, eval_model_name, total, reply) ==
    IF ~reply.ok
    THEN assemble(candidates, eval_model_name, candidates[1].translation, total)
    ELSE LET parsed == extract_synthesized(reply.content)
         IN  IF ~parsed.ok
             THEN ErrResponse(parsed.err)
             ELSE assemble(candidates, eval_model_name, parsed.text, total + reply.cost)

\* the tail of consensus_translate, from the evaluator's reply on
finish(candidates, eval_model_name, total, reply) ==
    IF ~reply.ok
    THEN ErrResponse("evaluation error")
    ELSE LET parsed == extract_synthesized(reply.content)
         IN  IF ~parsed.ok
             THEN ErrResponse(parsed.err)
             ELSE assemble(candidates, eval_model_name, parsed.text, total + reply.cost)

----------------------------------------------------------------------------
(* The inputs of the runs *)

TargetLangs == {"French", "Chinese", "English"}
SourceLangs == {"None", "Japanese"}
RunSentences == {<<"a", "kanji">>}
RunFormalities == {"MoreFormal"}

\* what a translation backend may answer
TranslationTexts == {<<"a">>, Refusal, <<"a">> \o Refusal}
TranslationReplies ==
    HttpFailures \cup {HttpSuccess(t, u) : t \in TranslationTexts, u \in Usages}
DeeplReplies ==
    HttpFailures \cup {HttpSuccess(t, NoUsage) : t \in TranslationTexts}

\* what the evaluator may answer
EvalTexts ==
    {<<"r", NL>> \o Fence \o <<NL, "H", NL>> \o Fence,
     <<"H">>,
     Fence \o <<NL>> \o Fence,
     Fence \o <<"H">>}
EvalReplies ==
    HttpFailures \cup {HttpSuccess(t, u) : t \in EvalTexts, u \in Usages}

----------------------------------------------------------------------------
(* The run of consensus_translate *)

\* the arguments of the call
args == <<sentence, target_lang, formality, source_lang, is_deepl_disabled>>

\* what the run has before the policy is asked
NotStarted ==
    /\ pc = "start"
    /\ sources_lang = "None"
    /\ translate_sources = <<>>
    /\ eval_source = Openrouter("")
    /\ translation_results = <<>>
    /\ requests = <<>>
    /\ arrival = <<>>
    /\ total_cost = 0
    /\ translations = <<>>
    /\ eval_system_prompt = NoPrompt
    /\ eval_user_prompt = <<>>
    /\ eval_st = "idle"
    /\ eval_reply = NoReply
    /\ eval_response = <<>>
    /\ synthesized = NotParsed
    /\ result = NoResponse

Init ==
    /\ sentence \in RunSentences
    /\ target_lang \in TargetLangs
    /\ formality \in RunFormalities
    /\ source_lang \in SourceLangs
    /\ is_deepl_disabled \in BOOLEAN
    /\ NotStarted

\* from the call to join_all: the policy is asked and one future per source
\* is made
Start ==
    /\ pc = "start"
    /\ sources_lang' = lang_for_sources(target_lang, source_lang)
    /\ \E supports_deepl_n \in BOOLEAN :
         LET translation_methods ==
                 get_appropriate_sources(lang_for_sources(target_lang, source_lang),
                                         is_deepl_disabled, supports_deepl_n)
         IN  /\ translate_sources' = translation_methods.translate_sources
             /\ eval_source' = translation_methods.eval_source
             /\ translation_results' =
                    [i \in 1..Len(translation_methods.translate_sources) |-> PendingResult]
    /\ pc' = "fanout"
    /\ UNCHANGED <<args, requests, arrival, total_cost, translations, eval_system_prompt,
                   eval_user_prompt,
                   eval_st, eval_reply, eval_response, synthesized, result>>

\* join_all polls its futures in their order; the future of branch i, polled
\* for the first time, calls its client
FirstPoll(i) ==
    /\ pc = "fanout"
    /\ \A j \in 1..(i - 1) : Requested(requests, j)
    /\ calls_client(requests, translation_results, i)
    /\ requests' =
           Append(requests, Request("translate", i, translate_sources[i], Len(arrival)))
    /\ UNCHANGED <<pc, args, sources_lang, translate_sources, eval_source,
                   translation_results, arrival, total_cost, translations,
                   eval_system_prompt, eval_user_prompt, eval_st, eval_reply,
                   eval_response, synthesized,
                   result>>

\* the HTTP exchange of OpenRouter branch i comes to `http` and the branch resolves
OpenrouterAnswers(i, http) ==
    /\ pc = "fanout"
    /\ Requested(requests, i)
    /\ translation_results[i].st = "pending"
    /\ translate_sources[i].kind = "Openrouter"
    /\ translation_results' =
           [translation_results EXCEPT ![i] = openrouter_future(translate_sources[i].model, http)]
    /\ arrival' = Append(arrival, i)
    /\ UNCHANGED <<pc, args, sources_lang, translate_sources, eval_source, requests,
                   total_cost, translations, eval_system_prompt, eval_user_prompt,
                   eval_st, eval_reply,
                   eval_response, synthesized, result>>

\* the HTTP exchange of the dedicated service's branch comes to `http` and the
\* branch resolves
DeeplAnswers(i, http) ==
    /\ pc = "fanout"
    /\ Requested(requests, i)
    /\ translation_results[i].st = "pending"
    /\ translate_sources[i].kind = "Deepl"
    /\ translation_results' = [translation_results EXCEPT ![i] = deepl_future(http)]
    /\ arrival' = Append(arrival, i)
    /\ UNCHANGED <<pc, args, sources_lang, translate_sources, eval_source, requests,
                   total_cost, translations, eval_system_prompt, eval_user_prompt,
                   eval_st, eval_reply,
                   eval_response, synthesized, result>>

\* the backend of an OpenRouter branch answers
OpenrouterBranch(i) == \E http \in TranslationReplies : OpenrouterAnswers(i, http)

\* the dedicated translation service answers
DeeplBranch(i) == \E http \in DeeplReplies : DeeplAnswers(i, http)

\* join_all resolves: the results are filtered, and either the run fails for
\* want of a candidate or the evaluation prompt is made and the evaluator called
JoinAll ==
    /\ pc = "fanout"
    /\ join_all_ready(translation_results)
    /\ LET collected == collect(join_all(translation_results, arrival))
       IN  /\ total_cost' = collected.total_cost
           /\ translations' = collected.translations
           /\ IF no_valid_translations(collected.translations)
              THEN /\ result' = ErrResponse("No valid translations after filtering")
                   /\ pc' = "done"
                   /\ eval_st' = eval_st
                   /\ eval_system_prompt' = eval_system_prompt
                   /\ eval_user_prompt' = eval_user_prompt
                   /\ requests' = requests
              ELSE /\ result' = result
                   /\ pc' = "eval"
                   /\ eval_st' = "inflight"
                   /\ eval_system_prompt' =
                          make_eval_system_prompt(sentence, source_lang, target_lang, formality)
                   /\ eval_user_prompt' = make_eval_user_prompt(collected.translations, sentence)
                   /\ requests' =
                          requests \o evaluation_requests(collected.translations, eval_source,
                                                          Len(arrival))
    /\ UNCHANGED <<args, sources_lang, translate_sources, eval_source, translation_results,
                   arrival, eval_reply, eval_response, synthesized>>

\* the evaluation call returns `reply`: the run fails, or the block is parsed
\* and the response assembled
EvalReturns(reply) ==
    /\ pc = "eval"
    /\ eval_st = "inflight"
    /\ eval_reply' = reply
    /\ eval_response' = reply.content
    /\ synthesized' = IF reply.ok THEN extract_synthesized(reply.content) ELSE NotParsed
    /\ total_cost' = IF reply.ok THEN total_cost + reply.cost ELSE total_cost
    /\ result' = finish(translations, eval_source.model, total_cost, reply)
    /\ eval_st' = "returned"
    /\ pc' = "done"
    /\ UNCHANGED <<args, sources_lang, translate_sources, eval_source, translation_results,
                   requests, arrival, translations, eval_system_prompt,
                   eval_user_prompt>>

\* the evaluator answers
EvalRespond ==
    \E http \in EvalReplies : EvalReturns(complete(eval_source.model, http))

Next ==
    \/ Start
    \/ \E i \in 1..Len(translation_results) : FirstPoll(i)
    \/ \E i \in 1..Len(translation_results) : OpenrouterBranch(i)
    \/ \E i \in 1..Len(translation_results) : DeeplBranch(i)
    \/ JoinAll
    \/ EvalRespond

Spec == Init /\ [][Next]_vars

----------------------------------------------------------------------------
(* The policy, applied to every language of the catalog *)

InitSelect ==
    /\ sentence \in RunSentences
    /\ target_lang \in Language
    /\ formality \in RunFormalities
    /\ source_lang \in {"None", "English", "Korean"}
    /\ is_deepl_disabled \in BOOLEAN
    /\ NotStarted

SpecSelect == InitSelect /\ [][Start]_vars

----------------------------------------------------------------------------
(* The calls a run makes, for every language of the catalog *)

\* a backend fails or answers with a text
CatalogReplies == {HttpFailure("transport"), HttpSuccess(<<"a">>, NoUsage)}

EvalRespondCatalog ==
    \E http \in {HttpFailure("status"),
                 HttpSuccess(Fence \o <<NL, "H", NL>> \o Fence, NoUsage)} :
        EvalReturns(complete(eval_source.model, http))

NextCatalog ==
    \/ Start
    \/ \E i \in 1..Len(translation_results) : FirstPoll(i)
    \/ \E i \in 1..Len(translation_results), http \in CatalogReplies : OpenrouterAnswers(i, http)
    \/ \E i \in 1..Len(translation_results), http \in CatalogReplies : DeeplAnswers(i, http)
    \/ JoinAll
    \/ EvalRespondCatalog

InitCatalog ==
    /\ sentence \in RunSentences
    /\ target_lang \in Language
    /\ formality \in RunFormalities
    /\ source_lang \in {"None", "Korean"}
    /\ is_deepl_disabled \in BOOLEAN
    /\ NotStarted

SpecCatalog == InitCatalog /\ [][NextCatalog]_vars

----------------------------------------------------------------------------
(* The aggregation of the cost, for a client that reports given costs *)

\* the costs a call may report, in 1e-8 dollars: 0, 0.0001, 0.00015, 0.0002
\* and 0.0005 dollars
ReportedCosts == {0, 10000, 15000, 20000, 50000}

GermanSources == get_appropriate_sources("German", TRUE, FALSE)

\* every future of the fan-out has called its client
AllRequested(sources) ==
    [i \in 1..Len(sources) |-> Request("translate", i, sources[i], 0)]

InitCost ==
    /\ pc = "fanout"
    /\ sentence \in RunSentences
    /\ target_lang = "German"
    /\ formality \in RunFormalities
    /\ source_lang = "None"
    /\ sources_lang = "German"
    /\ is_deepl_disabled = TRUE
    /\ translate_sources = GermanSources.translate_sources
    /\ eval_source = GermanSources.eval_source
    /\ translation_results \in
           [1..Len(GermanSources.translate_sources) ->
               {OkResult(m, t, c) : m \in {gpt41, gpt4o, gemma3_27b},
                                    t \in {<<"a">>, Refusal}, c \in ReportedCosts}
               \cup {ErrResult}]
    /\ \A i \in 1..Len(translation_results) :
           translation_results[i].st = "Ok" =>
               translation_results[i].source_name = translate_sources[i].model
    /\ requests = AllRequested(GermanSources.translate_sources)
    /\ arrival = [i \in 1..Len(translation_results) |-> i]
    /\ total_cost = 0
    /\ translations = <<>>
    /\ eval_system_prompt = NoPrompt
    /\ eval_user_prompt = <<>>
    /\ eval_st = "idle"
    /\ eval_reply = NoReply
    /\ eval_response = <<>>
    /\ synthesized = NotParsed
    /\ result = NoResponse

\* the evaluation call returns a text and a reported cost
EvalRespondReported ==
    \E c \in ReportedCosts :
        EvalReturns(CompleteOk(Fence \o <<NL, "H", NL>> \o Fence, c))

NextCost ==
    \/ JoinAll
    \/ EvalRespondReported

SpecCost == InitCost /\ [][NextCost]_vars

----------------------------------------------------------------------------
(* The parser, applied to every evaluator response of a bounded shape *)

Pieces == {Fence, <<BT>>, <<NL>>, <<SP>>, <<"a">>}

\* the texts made of at most n pieces
RECURSIVE Concats(_)
Concats(n) ==
    IF n = 0
    THEN {<<>>}
    ELSE LET shorter == Concats(n - 1)
         IN  shorter \cup {t \o p : t \in shorter, p \in Pieces}

\* one candidate survived and the evaluation call is in flight
InitParse ==
    /\ pc = "eval"
    /\ sentence = <<"a", "kanji">>
    /\ target_lang = "German"
    /\ formality = "MoreFormal"
    /\ source_lang = "None"
    /\ sources_lang = "German"
    /\ is_deepl_disabled = TRUE
    /\ translate_sources = GermanSources.translate_sources
    /\ eval_source = GermanSources.eval_source
    /\ translation_results = <<OkResult(gpt41, <<"c">>, 0), ErrResult, ErrResult>>
    /\ requests = AllRequested(GermanSources.translate_sources)
                      \o evaluation_requests(<<[source_name |-> gpt41, translation |-> <<"c">>]>>,
                                             GermanSources.eval_source, 3)
    /\ arrival = <<1, 2, 3>>
    /\ total_cost = 0
    /\ translations = <<[source_name |-> gpt41, translation |-> <<"c">>]>>
    /\ eval_system_prompt = make_eval_system_prompt(sentence, source_lang, target_lang, formality)
    /\ eval_user_prompt = make_eval_user_prompt(translations, sentence)
    /\ eval_st = "inflight"
    /\ eval_reply = NoReply
    /\ eval_response = <<>>
    /\ synthesized = NotParsed
    /\ result = NoResponse

\* the evaluator answers with a text of the bounded shape
EvalRespondText ==
    \E t \in Concats(MaxPieces) : EvalReturns(complete(eval_source.model, HttpSuccess(t, NoUsage)))

SpecParse == InitParse /\ [][EvalRespondText]_vars

----------------------------------------------------------------------------
(* The evaluation prompt, for sentences of every length up to a bound *)

\* the text of n characters c
Repeat(c, n) == [k \in 1..n |-> c]

PromptSentences == {Repeat(c, n) : c \in Chars, n \in 0..MaxChars}
PromptTargets == {"German", "English", "Chinese"}
PromptSources == {"None", "PortugueseBrazil"}

PromptSelection(target, source) ==
    get_appropriate_sources(lang_for_sources(target, source), TRUE, FALSE)

\* every branch of the fan-out has answered with a text
InitPrompt ==
    /\ pc = "fanout"
    /\ sentence \in PromptSentences
    /\ target_lang \in PromptTargets
    /\ formality \in Formality
    /\ source_lang \in PromptSources
    /\ sources_lang = lang_for_sources(target_lang, source_lang)
    /\ is_deepl_disabled = TRUE
    /\ translate_sources = PromptSelection(target_lang, source_lang).translate_sources
    /\ eval_source = PromptSelection(target_lang, source_lang).eval_source
    /\ translation_results =
           [i \in 1..Len(translate_sources) |->
               OkResult(translate_sources[i].model, <<"c">>, 0)]
    /\ requests = AllRequested(translate_sources)
    /\ arrival = [i \in 1..Len(translation_results) |-> i]
    /\ total_cost = 0
    /\ translations = <<>>
    /\ eval_system_prompt = NoPrompt
    /\ eval_user_prompt = <<>>
    /\ eval_st = "idle"
    /\ eval_reply = NoReply
    /\ eval_response = <<>>
    /\ synthesized = NotParsed
    /\ result = NoResponse

SpecPrompt == InitPrompt /\ [][JoinAll]_vars

----------------------------------------------------------------------------
(* The user prompt of the evaluation, for every outcome of the fan-out *)

\* what a branch answered, and the sentences: with and without the sentinel
UserPromptTexts == {<<"a">>, <<"b">>, Refusal, <<"b">> \o Refusal}
UserPromptSentences == {<<"a">>, Refusal, <<"b">> \o Refusal}

\* every branch of the fan-out has failed or answered with a text
InitUserPrompt ==
    /\ pc = "fanout"
    /\ sentence \in UserPromptSentences
    /\ target_lang = "German"
    /\ formality \in RunFormalities
    /\ source_lang = "None"
    /\ sources_lang = "German"
    /\ is_deepl_disabled = TRUE
    /\ translate_sources = GermanSources.translate_sources
    /\ eval_source = GermanSources.eval_source
    /\ translation_results \in
           [1..Len(GermanSources.translate_sources) ->
               {OkResult(m, t, 0) : m \in {gpt41, gpt4o, gemma3_27b}, t \in UserPromptTexts}
               \cup {ErrResult}]
    /\ \A i \in 1..Len(translation_results) :
           translation_results[i].st = "Ok" =>
               translation_results[i].source_name = translate_sources[i].model
    /\ requests = AllRequested(GermanSources.translate_sources)
    /\ arrival = [i \in 1..Len(translation_results) |-> i]
    /\ total_cost = 0
    /\ translations = <<>>
    /\ eval_system_prompt = NoPrompt
    /\ eval_user_prompt = <<>>
    /\ eval_st = "idle"
    /\ eval_reply = NoReply
    /\ eval_response = <<>>
    /\ synthesized = NotParsed
    /\ result = NoResponse

SpecUserPrompt == InitUserPrompt /\ [][JoinAll]_vars

----------------------------------------------------------------------------
(* What the claims speak of, read off the branches themselves *)

\* branch i answered with a text that is not a refusal
Survives(i) ==
    /\ translation_results[i].st = "Ok"
    /\ ~Contains(translation_results[i].translation, Refusal)

SomeSurvivor == \E i \in 1..Len(translation_results) : Survives(i)

AllResolved == \A i \in 1..Len(translation_results) : translation_results[i].st # "pending"

\* the candidates of the surviving branches, in the order of the policy's list
RECURSIVE SurvivorsFrom(_)
SurvivorsFrom(i) ==
    IF i > Len(translation_results)
    THEN <<>>
    ELSE (IF Survives(i)
          THEN <<TranslationResponseItem(<<translate_sources[i].model>>, FALSE,
                                         translation_results[i].translation)>>
          ELSE <<>>) \o SurvivorsFrom(i + 1)

\* the entries of the result but the last
Candidates(r) == SubSeq(r.translations, 1, Len(r.translations) - 1)

ExactlySurvivorsPlusSynthesized(r) ==
    /\ r.kind = "Ok"
    /\ Len(r.translations) = Len(SurvivorsFrom(1)) + 1
    /\ Candidates(r) = SurvivorsFrom(1)
    /\ r.translations[Len(r.translations)].combined

RECURSIVE IsSubseq(_, _)
IsSubseq(a, b) ==
    IF a = <<>> THEN TRUE
    ELSE IF b = <<>> THEN FALSE
    ELSE IF Head(a) = Head(b) THEN IsSubseq(Tail(a), Tail(b))
    ELSE IsSubseq(a, Tail(b))

\* the cost reported by every translation call that returned a response
RECURSIVE ReportedFrom(_)
ReportedFrom(i) ==
    IF i > Len(translation_results)
    THEN 0
    ELSE (IF translation_results[i].st = "Ok" THEN translation_results[i].cost ELSE 0)
         + ReportedFrom(i + 1)

\* n is x / 1000 rounded to the nearest integer, halves away from zero
IsRounded(n, x) == 1000 * n - 500 <= x /\ x < 1000 * n + 500

----------------------------------------------------------------------------
(* C1 *)

\* C1, as stated: whenever at least one branch succeeds with a text that is
\* not a refusal, the run ends with a result whose entries are exactly the
\* surviving candidates plus one synthesized entry.
C1_AlwaysAResult ==
    (pc = "done" /\ SomeSurvivor) => ExactlySurvivorsPlusSynthesized(result)

\* C1, amended: whenever at least one branch succeeds with a text that is not
\* a refusal, the run does not fail for want of candidates; it ends with a
\* result exactly when the evaluation call returns a response from which a
\* synthesized text is extracted, and the entries of that result are exactly
\* the surviving candidates (one per surviving branch, none for a failed or
\* refused one) plus one synthesized entry.
C1_SurvivorsPlusSynthesized ==
    (pc = "done" /\ SomeSurvivor) =>
        IF eval_reply.ok /\ synthesized.ok
        THEN ExactlySurvivorsPlusSynthesized(result)
        ELSE /\ result.kind = "Err"
             /\ result.err # "No valid translations after filtering"
             /\ eval_st = "returned"

\* a result of a run in which one branch failed, one was refused and one survived
C1_Witness ==
    /\ pc = "done"
    /\ result.kind = "Ok"
    /\ Len(result.translations) = 2
    /\ \E i \in 1..Len(translation_results) : translation_results[i].st = "Err"
    /\ \E i \in 1..Len(translation_results) :
           /\ translation_results[i].st = "Ok"
           /\ Contains(translation_results[i].translation, Refusal)

----------------------------------------------------------------------------
(* C2 *)

\* C2: if every branch failed or answered a refusal, in any mix, the run ends
\* with the no-candidates error and never with a result.
C2_NoCandidatesError ==
    (pc = "done" /\ ~SomeSurvivor) =>
        /\ result = ErrResponse("No valid translations after filtering")
        /\ eval_st = "idle"

\* the run ended with a mix: a branch that failed and a branch that was refused
C2_Witness ==
    /\ pc = "done"
    /\ ~SomeSurvivor
    /\ \E i \in 1..Len(translation_results) : translation_results[i].st = "Err"
    /\ \E i \in 1..Len(translation_results) : translation_results[i].st = "Ok"

----------------------------------------------------------------------------
(* C3 *)

\* C3: no candidate entry of a result has a text equal to or containing the
\* refusal sentinel.
C3_NoRefusalAmongCandidates ==
    result.kind = "Ok" =>
        \A k \in 1..Len(result.translations) :
            ~result.translations[k].combined =>
                /\ result.translations[k].text # Refusal
                /\ \A i \in 0..Len(result.translations[k].text) :
                       ~MatchesAt(result.translations[k].text, Refusal, i)

\* a result of a run in which a branch answered a text that holds the
\* sentinel among other characters, and another the bare sentinel
C3_Witness ==
    /\ result.kind = "Ok"
    /\ \E i \in 1..Len(translation_results) :
           /\ translation_results[i].st = "Ok"
           /\ translation_results[i].translation = <<"a">> \o Refusal
    /\ \E i \in 1..Len(translation_results) :
           /\ translation_results[i].st = "Ok"
           /\ translation_results[i].translation = Refusal

----------------------------------------------------------------------------
(* C4 *)

\* C4: whatever the order in which the branches resolved, the candidate
\* entries of a result name their sources in the order of the policy's list.
C4_CandidatesInPolicyOrder ==
    result.kind = "Ok" =>
        IsSubseq([k \in 1..Len(Candidates(result)) |-> Candidates(result)[k].model],
                 [i \in 1..Len(translate_sources) |-> <<translate_sources[i].model>>])

\* a result with all three candidates although the last branch resolved first
C4_Witness ==
    /\ result.kind = "Ok"
    /\ Len(result.translations) = 4
    /\ arrival = <<3, 1, 2>>

----------------------------------------------------------------------------
(* C5 *)

\* C5: the evaluation call is never issued, in flight or returned, while a
\* translation branch is pending.
C5_EvalAfterFanout ==
    eval_st # "idle" => AllResolved

\* the evaluation call is in flight after a fan-out in which a branch failed
C5_Witness ==
    /\ eval_st = "inflight"
    /\ AllResolved
    /\ \E i \in 1..Len(translation_results) : translation_results[i].st = "Err"

----------------------------------------------------------------------------
(* C6 *)

----------------------------------------------------------------------------
(* C7, under SpecCost *)

\* three branches reported 0.0001, 0.0002 and 0.00015 dollars and the
\* evaluation call 0.0005 dollars
C7_Scenario ==
    /\ result.kind = "Ok"
    /\ Len(translation_results) = 3
    /\ \A i \in 1..3 : translation_results[i].st = "Ok"
    /\ translation_results[1].cost = 10000
    /\ translation_results[2].cost = 20000
    /\ translation_results[3].cost = 15000
    /\ eval_reply.ok
    /\ eval_reply.cost = 50000

----------------------------------------------------------------------------
(* C8 and C9, under SpecParse *)

HasOpening(response) == \E i \in 0..Len(response) : MatchesAt(response, Fence, i)

\* the text after the first opening delimiter
AfterOpening(response) ==
    LET first == CHOOSE i \in 0..Len(response) :
                     /\ MatchesAt(response, Fence, i)
                     /\ \A j \in 0..(i - 1) : ~MatchesAt(response, Fence, j)
    IN  SubSeq(response, first + 4, Len(response))

HasClosing(response) == HasOpening(response) /\ HasOpening(AfterOpening(response))

\* the text strictly between the first delimiter and the next one after it
Between(response) ==
    LET rest == AfterOpening(response)
        close == CHOOSE i \in 0..Len(rest) :
                     /\ MatchesAt(rest, Fence, i)
                     /\ \A j \in 0..(i - 1) : ~MatchesAt(rest, Fence, j)
    IN  SubSeq(rest, 1, close)

\* a text without its first line, if it has more than one
WithoutFirstLine(t) ==
    IF \E i \in 1..Len(t) : t[i] = NL
    THEN LET nl == CHOOSE i \in 1..Len(t) : t[i] = NL /\ \A j \in 1..(i - 1) : t[j] # NL
         IN  SubSeq(t, nl + 1, Len(t))
    ELSE t

\* the trimmed content of the block, its first line taken as content or as
\* a language tag
BlockContents(response) ==
    {Trim(Between(response)), Trim(WithoutFirstLine(Between(response)))}

\* the text of the synthesized entry, empty if the run gave no result
SynthesizedText ==
    IF result.kind = "Ok"
    THEN result.translations[Len(result.translations)].text
    ELSE <<>>

\* C8: for every response with an opening delimiter and a closing one after
\* it, the synthesized text is the trimmed content between the two, with an
\* optional language-tag line skipped (and the run fails when that is empty).
C8_ContentBetweenFences ==
    (pc = "done" /\ eval_reply.ok /\ HasClosing(eval_response)) =>
        SynthesizedText \in BlockContents(eval_response)

\* C9: a response without an opening delimiter, or without a closing one
\* after it, or whose block is empty after trimming, ends the run with a
\* parse error and no result.
C9_DegenerateResponseFails ==
    (/\ pc = "done"
     /\ eval_reply.ok
     /\ \/ ~HasOpening(eval_response)
        \/ ~HasClosing(eval_response)
        \/ Trim(Between(eval_response)) = <<>>) =>
        /\ result.kind = "Err"
        /\ result.err \in {"no fence", "no closing fence", "empty content"}

----------------------------------------------------------------------------
(* C10, under SpecSelect *)

\* C10: for every language of the catalog and both values of the toggle, the
\* policy returns at least one translation source and one evaluator, which
\* is an OpenRouter model and never the dedicated translation service.
C10_SelectionWellFormed ==
    pc = "fanout" =>
        /\ Len(translate_sources) >= 1
        /\ \A i \in 1..Len(translate_sources) :
               translate_sources[i].kind \in {"Openrouter", "Deepl"}
        /\ eval_source.kind = "Openrouter"
        /\ eval_source.model \in {gpt4o, gpt41, geminiflash2, llama3370b, sonnet35, gemma3_27b}
        /\ eval_source # Deepl

\* the policy was asked for Unknown with the dedicated service enabled and
\* listed it among the sources
C10_Witness ==
    /\ pc = "fanout"
    /\ lang_for_sources(target_lang, source_lang) = "Unknown"
    /\ ~is_deepl_disabled
    /\ \E i \in 1..Len(translate_sources) : translate_sources[i] = Deepl

----------------------------------------------------------------------------
(* The calls of a run *)

\* how many times the evaluator was called
EvalCalls == Cardinality({k \in 1..Len(requests) : requests[k].purpose = "eval"})

\* how many times the future of branch i called its client
TranslateCalls(i) ==
    Cardinality({k \in 1..Len(requests) :
                    requests[k].purpose = "translate" /\ requests[k].branch = i})

----------------------------------------------------------------------------
(* C12, under SpecCatalog *)

\* C12: with the dedicated-service toggle disabled, the dedicated translation
\* service is in the source list of no language of the catalog, and no call
\* of a run, for a translation or for the evaluation, goes to it.
C12_NoDedicatedServiceWhenDisabled ==
    is_deepl_disabled =>
        /\ \A i \in 1..Len(translate_sources) : translate_sources[i].kind # "Deepl"
        /\ \A k \in 1..Len(requests) : requests[k].source.kind # "Deepl"

\* a run for French, which lists the dedicated service when the toggle is
\* enabled, ended with the toggle disabled after four calls
C12_Witness ==
    /\ is_deepl_disabled
    /\ sources_lang = "French"
    /\ pc = "done"
    /\ result.kind = "Ok"
    /\ Len(requests) = 4

----------------------------------------------------------------------------
(* C13 *)

\* C13: every result has exactly one entry with combined = TRUE; it is the
\* last one and its model name is "Synthesized (<id>)" for the evaluator the
\* policy selected; every other entry has combined = FALSE and carries the
\* model name of the source that produced it.
C13_ResultShape ==
    result.kind = "Ok" =>
        LET n == Len(result.translations)
        IN  /\ n >= 1
            /\ Cardinality({k \in 1..n : result.translations[k].combined}) = 1
            /\ result.translations[n].combined
            /\ \E supports_deepl_n \in BOOLEAN :
                   result.translations[n].model =
                       <<"Synthesized (",
                         get_appropriate_sources(sources_lang, is_deepl_disabled,
                                                 supports_deepl_n).eval_source.model,
                         ")">>
            /\ n - 1 = Len(SurvivorsFrom(1))
            /\ \A k \in 1..(n - 1) :
                   /\ ~result.translations[k].combined
                   /\ result.translations[k].model = SurvivorsFrom(1)[k].model

\* a result with two candidates, of a run for Chinese in which the first
\* branch was refused
C13_Witness ==
    /\ result.kind = "Ok"
    /\ Len(result.translations) = 3
    /\ eval_source.model = gpt4o
    /\ translation_results[1].st = "Ok"
    /\ ~Survives(1)

----------------------------------------------------------------------------
(* C14, under SpecSilent *)

\* The backend of the second branch (an OpenRouter model in French's list,
\* whatever the toggle) never answers; every other backend does, and the
\* futures are polled.  OpenRouterClient::new builds its transport without a
\* timeout, so nothing but its backend's answer resolves a branch.
FairSilent ==
    /\ WF_vars(Start)
    /\ \A i \in 1..3 : WF_vars(FirstPoll(i))
    /\ \A i \in {1, 3} : WF_vars(OpenrouterBranch(i)) /\ WF_vars(DeeplBranch(i))
    /\ WF_vars(JoinAll)
    /\ WF_vars(EvalRespond)

InitSilent ==
    /\ sentence \in RunSentences
    /\ target_lang = "French"
    /\ formality \in RunFormalities
    /\ source_lang = "None"
    /\ is_deepl_disabled \in BOOLEAN
    /\ NotStarted

SpecSilent == InitSilent /\ [][Next]_vars /\ FairSilent

(* The run when every backend answers: the fairness C23 speaks of *)

\* Every backend answers every call made to it, and the futures are polled.
FairReturns ==
    /\ WF_vars(Start)
    /\ \A i \in 1..3 : WF_vars(FirstPoll(i))
    /\ \A i \in 1..3 : WF_vars(OpenrouterBranch(i)) /\ WF_vars(DeeplBranch(i))
    /\ WF_vars(JoinAll)
    /\ WF_vars(EvalRespond)

SpecReturns == InitSilent /\ [][Next]_vars /\ FairReturns

----------------------------------------------------------------------------

\* C14: the run returns in the end even when one translation backend never
\* answers.
C14_EventuallyReturns == <>(pc = "done")

----------------------------------------------------------------------------
(* C15 *)

\* C15: the evaluator is called exactly once in a run in which a candidate
\* survives filtering and not at all in a run in which none does; the call
\* goes to the evaluator of the selection.
C15_OneEvaluationCall ==
    /\ EvalCalls <= 1
    /\ pc \in {"start", "fanout"} => EvalCalls = 0
    /\ pc \in {"eval", "done"} => EvalCalls = (IF SomeSurvivor THEN 1 ELSE 0)
    /\ \A k \in 1..Len(requests) :
           requests[k].purpose = "eval" => requests[k].source = eval_source

\* a run with a candidate ended on a failure of its one evaluation call
C15_Witness ==
    /\ pc = "done"
    /\ SomeSurvivor
    /\ EvalCalls = 1
    /\ ~eval_reply.ok
    /\ result.kind = "Err"

----------------------------------------------------------------------------
(* C16 *)

\* C16: each source of the selection gets exactly one translation request in
\* a run: never a second one, whatever its branch came to, and none is left
\* out when the fan-out is over, whatever the other branches came to.
C16_OneRequestPerSource ==
    /\ \A k \in 1..Len(requests) :
           requests[k].purpose = "translate" =>
               /\ requests[k].branch \in 1..Len(translate_sources)
               /\ requests[k].source = translate_sources[requests[k].branch]
    /\ \A i \in 1..Len(translate_sources) : TranslateCalls(i) <= 1
    /\ pc \in {"eval", "done"} =>
           \A i \in 1..Len(translate_sources) : TranslateCalls(i) = 1

\* a run ended in which the first branch had failed before the second made
\* its request, and the third was refused
C16_Witness ==
    /\ pc = "done"
    /\ translation_results[1].st = "Err"
    /\ arrival[1] = 1
    /\ \E k \in 1..Len(requests) :
           /\ requests[k].purpose = "translate"
           /\ requests[k].branch = 2
           /\ requests[k].resolved = 1
    /\ translation_results[3].st = "Ok"
    /\ ~Survives(3)
    /\ \A i \in 1..3 : TranslateCalls(i) = 1

----------------------------------------------------------------------------
(* C18, under SpecSelect *)

\* C18: the language handed to the policy is the target language when the
\* target is not English; when it is English, it is the source language, or
\* Unknown when none was given.
C18_LanguageForSources ==
    pc = "fanout" =>
        /\ target_lang # "English" => sources_lang = target_lang
        /\ (target_lang = "English" /\ source_lang # "None") => sources_lang = source_lang
        /\ (target_lang = "English" /\ source_lang = "None") => sources_lang = "Unknown"
        /\ \E supports_deepl_n \in BOOLEAN :
               translate_sources =
                   get_appropriate_sources(sources_lang, is_deepl_disabled,
                                           supports_deepl_n).translate_sources

\* the policy was asked for Korean, the source language of a translation
\* into English, and gave Korean's list
C18_Witness ==
    /\ pc = "fanout"
    /\ target_lang = "English"
    /\ source_lang = "Korean"
    /\ sources_lang = "Korean"
    /\ translate_sources = <<Openrouter(gpt41), Openrouter(sonnet35), Openrouter(gemma3_27b)>>

----------------------------------------------------------------------------
(* C19 and C20, under SpecPrompt *)

\* n clamped to lo..hi
Clamp(n, lo, hi) == IF n < lo THEN lo ELSE IF n > hi THEN hi ELSE n

\* the evaluation prompt carries the number n
PromptCarries(n) ==
    \E place \in DOMAIN eval_system_prompt : eval_system_prompt[place] = to_string(n)

\* C19: the word budget in the evaluation prompt is the length of the
\* sentence in characters divided by 4 and clamped to 50..120: 50 for every
\* sentence shorter than 200 characters, 120 for every sentence of 480
\* characters or more.
C19_BudgetFromCharacters ==
    pc = "eval" =>
        /\ PromptCarries(Clamp(Len(sentence) \div 4, 50, 120))
        /\ Len(sentence) < 200 => PromptCarries(50)
        /\ Len(sentence) >= 480 => PromptCarries(120)
        /\ \A n \in 0..(MaxChars + 1) : PromptCarries(n) => n \in 50..120

\* C20: in the evaluation prompt, the place named as the source of the
\* direction holds the label of the source language, the place named as its
\* target the label of the target language, the place named as the formality
\* the requested formality, and the place named as the word limit the budget.
C20_PlacesFilledAsNamed ==
    pc = "eval" =>
        /\ eval_system_prompt.from = source_lang_str(source_lang)
        /\ eval_system_prompt.to = <<to_llm_format(target_lang)>>
        /\ eval_system_prompt.formality = formality_explicit(formality)
        /\ eval_system_prompt.words = to_string(thinking_words(sentence))

----------------------------------------------------------------------------
(* C24 *)

\* C24: when the evaluation call itself fails (in transit, by its status, by
\* a body that does not decode or holds no choice), the run ends with an
\* error and no entry, the candidates that survived are not returned, and the
\* evaluation call was made once.
C24_EvaluationFailureIsAnError ==
    (pc = "done" /\ eval_reply.err \in {"transport", "status", "decode", "no_choices"}) =>
        /\ result = ErrResponse("evaluation error")
        /\ result.translations = <<>>
        /\ EvalCalls = 1
        /\ ~ENABLED Next

\* three candidates survived and the body of the evaluator's answer did not
\* decode
C24_Witness ==
    /\ pc = "done"
    /\ \A i \in 1..3 : Survives(i)
    /\ Len(translations) = 3
    /\ eval_reply = CompleteErr("decode")
    /\ result.kind = "Err"

----------------------------------------------------------------------------
(* C25, under SpecParse *)

\* C25: in every result, the text of the synthesized entry is not empty,
\* neither starts nor ends with whitespace, and does not contain the fence.
C25_SynthesizedTextClean ==
    result.kind = "Ok" =>
        /\ SynthesizedText # <<>>
        /\ ~IsWhitespace(SynthesizedText[1])
        /\ ~IsWhitespace(SynthesizedText[Len(SynthesizedText)])
        /\ ~Contains(SynthesizedText, Fence)

\* the content stood between spaces in the block and was returned without them
C25_Witness ==
    /\ pc = "done"
    /\ eval_response = Fence \o <<SP, "a", SP>> \o Fence
    /\ result.kind = "Ok"
    /\ SynthesizedText = <<"a">>

----------------------------------------------------------------------------
(* C26, under SpecSelect *)

\* the sources of the selection: those of the fan-out and the evaluator
SelectedSources ==
    {translate_sources[i] : i \in 1..Len(translate_sources)} \cup {eval_source}

\* C26: every model the policy returns, for a translation or for the
\* evaluation, has an entry in the price table, and a call to it with a
\* usage that is not zero reports a cost that is not zero.
C26_EveryModelPriced ==
    pc = "fanout" =>
        \A s \in SelectedSources :
            s.kind = "Openrouter" =>
                /\ price_per_token(s.model) # <<0, 0>>
                /\ \A p, c \in 0..MaxTokens :
                       p + c > 0 =>
                           complete(s.model, HttpSuccess(<<"a">>, Usage(p, c))).cost > 0

----------------------------------------------------------------------------
(* C21, under SpecUserPrompt *)

\* the parts occur in the text one after the other, from the k-th part and
\* the 0-based offset from on
RECURSIVE OccurInOrder(_, _, _, _)
OccurInOrder(text, parts, k, from) ==
    IF k > Len(parts)
    THEN TRUE
    ELSE \E p \in from..Len(text) :
             /\ MatchesAt(text, parts[k], p)
             /\ OccurInOrder(text, parts, k + 1, p + Len(parts[k]))

\* the texts of the surviving branches, in the order of the policy's list
SurvivorTexts == [k \in 1..Len(SurvivorsFrom(1)) |-> SurvivorsFrom(1)[k].text]

\* branch i answered with a text that was dropped as a refusal
Refused(i) ==
    /\ translation_results[i].st = "Ok"
    /\ Contains(translation_results[i].translation, Refusal)

\* the user prompt holds the text of no branch dropped as a refusal
NoRefusedText ==
    \A i \in 1..Len(translation_results) :
        Refused(i) => ~Contains(eval_user_prompt, translation_results[i].translation)

\* C21: the user prompt of the evaluation call contains the text of every
\* surviving candidate, in candidate order, and the original sentence; and,
\* when the original sentence does not itself contain the refusal sentinel,
\* it contains the text of no branch dropped as a refusal (a failed branch
\* has no text).
C21_UserPromptOfSurvivors ==
    pc = "eval" =>
        /\ OccurInOrder(eval_user_prompt, SurvivorTexts, 1, 0)
        /\ Contains(eval_user_prompt, sentence)
        /\ ~Contains(sentence, Refusal) => NoRefusedText

\* the first and third branches survived with different texts, the second
\* was dropped as a refusal, and the sentence is free of the sentinel
C21_Witness ==
    /\ pc = "eval"
    /\ Survives(1) /\ Refused(2) /\ Survives(3)
    /\ translation_results[1].translation = <<"a">>
    /\ translation_results[2].translation = <<"b">> \o Refusal
    /\ translation_results[3].translation = <<"b">>
    /\ sentence = <<"a">>
    /\ Len(translations) = 2
    /\ eval_user_prompt # <<>>

\* C21 as stated: the user prompt contains the survivors' texts in order and
\* the original sentence, and the text of no dropped branch, whatever the
\* sentence.
C21_NoDroppedTextAtAll ==
    pc = "eval" =>
        /\ OccurInOrder(eval_user_prompt, SurvivorTexts, 1, 0)
        /\ Contains(eval_user_prompt, sentence)
        /\ NoRefusedText

----------------------------------------------------------------------------
(* C22 *)

\* C22: during the fan-out a branch that is still pending keeps no other
\* branch from calling its client when its turn in the first poll has come,
\* and keeps no branch that has called its client from completing, whatever
\* the other branches have come to.
C22_BranchesIndependent ==
    pc = "fanout" =>
        \A i \in 1..Len(translation_results) :
            translation_results[i].st = "pending" =>
                /\ (~Requested(requests, i) /\ \A j \in 1..(i - 1) : Requested(requests, j))
                       => ENABLED FirstPoll(i)
                /\ Requested(requests, i)
                       => ENABLED (OpenrouterBranch(i) \/ DeeplBranch(i))

\* the three requests were issued before any branch had resolved, and the
\* branches completed in the reverse of the order of their requests
C22_Witness ==
    /\ pc = "fanout"
    /\ Len(requests) = 3
    /\ \A k \in 1..3 : requests[k].branch = k /\ requests[k].resolved = 0
    /\ arrival = <<3, 2, 1>>

----------------------------------------------------------------------------
(* C23, under SpecReturns *)

\* C23: when every backend answers every call, the run returns in the end,
\* with a result or an error, and it never has returned while a branch of the
\* fan-out was still pending.
C23_ReturnsOnceAllBranchesHave ==
    /\ <>(pc = "done")
    /\ [](pc = "done" => (AllResolved /\ result.kind \in {"Ok", "Err"}))

\* the run returned a result after a fan-out in which one branch failed
C23_Witness ==
    /\ pc = "done"
    /\ result.kind = "Ok"
    /\ AllResolved
    /\ translation_results[1].st = "Err"
    /\ Len(arrival) = 3

====
